---- MODULE Spec2Model ----
(***************************************************************************)
(* Quantum random number generator: the generator object of                *)
(* quantum_core.py (measurements, counts, the encodings and statistics it  *)
(* derives from them), the static randomness tests of utils.py, the        *)
(* commands of main.py and the session of the web page.                    *)
(*                                                                         *)
(* Representation of Python values                                         *)
(*   list of bits   a sequence over {0, 1}                                 *)
(*   str            a sequence of one-character strings                    *)
(*   int            integers of the tests are TLA+ integers; the unbounded *)
(*                  int built by int(s, 2) is a PyInt: its binary digits,  *)
(*                  most significant first, no leading zero (<<>> is 0)    *)
(*   float          an exact fraction [t |-> "fin", n, d] in lowest terms, *)
(*                  or NaN, or +/-Inf; rounding of doubles is not modelled *)
(*   dict           a record (result dicts) or a sequence of <<key, value>>*)
(*                  pairs in insertion order (the outcome counts)          *)
(*   a call         Return(value) or Raise(exception class)                *)
(* The library functions the code calls (scipy's norm.cdf and chi2.cdf,    *)
(* numpy's sqrt and log2) are tabulated: the normal distribution function  *)
(* at steps of 0.01 to six decimals, log2 at steps of 0.001 to six         *)
(* decimals.                                                               *)
(***************************************************************************)
EXTENDS Integers, Sequences, FiniteSets, TLC

\* Bounds of the model.
MaxLen == 8
MaxShots == 5
MaxCount == 100
MaxAnalyze == 12
MaxFill == 33
MaxPress == 2

VARIABLES
    measurements,   \* self.measurements of the generator
    counts,         \* self.counts of the generator
    sample,         \* the caller's list handed to the static tests
    result,         \* the last call: what was called, on what, and its outcome
    session         \* st.session_state of the web page: qrng, measurements, stats

vars == <<measurements, counts, sample, result, session>>

----------------------------------------------------------------------------
\* Outcomes of a call.
Return(v) == [kind |-> "return", value |-> v]
Raise(exc) == [kind |-> "raise", exc |-> exc]

----------------------------------------------------------------------------
\* Floats as exact fractions.
Abs(x) == IF x < 0 THEN -x ELSE x

RECURSIVE Gcd(_, _)
Gcd(a, b) == IF b = 0 THEN a ELSE Gcd(b, a % b)

F(n, d) ==
    LET g == Gcd(Abs(n), Abs(d))
        s == IF d < 0 THEN -1 ELSE 1
    IN  [t |-> "fin", n |-> s * (n \div g), d |-> s * (d \div g)]

NaN == [t |-> "nan", n |-> 0, d |-> 0]
Inf(s) == [t |-> "inf", n |-> s, d |-> 0]

IsNaN(x) == x.t = "nan"
IsFinite(x) == x.t = "fin"

Lcm(a, b) == (a \div Gcd(a, b)) * b

\* arithmetic of doubles: NaN spreads, Inf - Inf and 0 * Inf are NaN
FAdd(x, y) ==
    CASE x.t = "nan" \/ y.t = "nan" -> NaN
      [] x.t = "inf" /\ y.t = "inf" -> IF x.n = y.n THEN x ELSE NaN
      [] x.t = "inf" -> x
      [] y.t = "inf" -> y
      [] OTHER ->
            LET l == Lcm(x.d, y.d)
            IN  F(x.n * (l \div x.d) + y.n * (l \div y.d), l)
FNeg(x) ==
    CASE x.t = "nan" -> NaN
      [] x.t = "inf" -> Inf(-x.n)
      [] OTHER -> F(-x.n, x.d)
FSub(x, y) == FAdd(x, FNeg(y))
FMul(x, y) ==
    CASE x.t = "nan" \/ y.t = "nan" -> NaN
      [] x.t = "inf" \/ y.t = "inf" ->
            IF x.n = 0 \/ y.n = 0 THEN NaN
            ELSE Inf(IF (x.n > 0) = (y.n > 0) THEN 1 ELSE -1)
      [] OTHER ->
            LET g1 == Gcd(Abs(x.n), y.d)
                g2 == Gcd(Abs(y.n), x.d)
            IN  F((x.n \div g1) * (y.n \div g2), (x.d \div g2) * (y.d \div g1))
\* x / y for a finite y # 0 (the callers raise or branch on a zero divisor first)
FDiv(x, y) == FMul(x, F(y.d, y.n))
FAbs(x) == IF x.t = "fin" THEN F(Abs(x.n), x.d) ELSE IF x.t = "inf" THEN Inf(1) ELSE NaN

\* x > y as Python compares floats: every comparison with NaN is False
FGt(x, y) ==
    CASE x.t = "nan" \/ y.t = "nan" -> FALSE
      [] x.t = "inf" /\ y.t = "inf" -> x.n > y.n
      [] x.t = "inf" -> x.n > 0
      [] y.t = "inf" -> y.n < 0
      [] OTHER -> x.n * y.d > y.n * x.d
FGe(x, y) == FGt(x, y) \/ (x.t # "nan" /\ x = y)
FLt(x, y) == FGt(y, x)

\* floor(scale * sqrt(x)) for a fraction x >= 0, capped at cap
ScaledSqrt(x, scale, cap) ==
    IF cap * cap * x.d <= scale * scale * x.n
    THEN cap
    ELSE CHOOSE k \in 0..cap :
            /\ k * k * x.d <= scale * scale * x.n
            /\ (k + 1) * (k + 1) * x.d > scale * scale * x.n

----------------------------------------------------------------------------
\* The standard normal distribution function, in millionths, at z = k/100.
PhiMicro ==
 <<
    500000, 503989, 507978, 511966, 515953, 519939, 523922, 527903, 531881, 535856,
    539828, 543795, 547758, 551717, 555670, 559618, 563559, 567495, 571424, 575345,
    579260, 583166, 587064, 590954, 594835, 598706, 602568, 606420, 610261, 614092,
    617911, 621720, 625516, 629300, 633072, 636831, 640576, 644309, 648027, 651732,
    655422, 659097, 662757, 666402, 670031, 673645, 677242, 680822, 684386, 687933,
    691462, 694974, 698468, 701944, 705401, 708840, 712260, 715661, 719043, 722405,
    725747, 729069, 732371, 735653, 738914, 742154, 745373, 748571, 751748, 754903,
    758036, 761148, 764238, 767305, 770350, 773373, 776373, 779350, 782305, 785236,
    788145, 791030, 793892, 796731, 799546, 802337, 805105, 807850, 810570, 813267,
    815940, 818589, 821214, 823814, 826391, 828944, 831472, 833977, 836457, 838913,
    841345, 843752, 846136, 848495, 850830, 853141, 855428, 857690, 859929, 862143,
    864334, 866500, 868643, 870762, 872857, 874928, 876976, 879000, 881000, 882977,
    884930, 886861, 888768, 890651, 892512, 894350, 896165, 897958, 899727, 901475,
    903200, 904902, 906582, 908241, 909877, 911492, 913085, 914657, 916207, 917736,
    919243, 920730, 922196, 923641, 925066, 926471, 927855, 929219, 930563, 931888,
    933193, 934478, 935745, 936992, 938220, 939429, 940620, 941792, 942947, 944083,
    945201, 946301, 947384, 948449, 949497, 950529, 951543, 952540, 953521, 954486,
    955435, 956367, 957284, 958185, 959070, 959941, 960796, 961636, 962462, 963273,
    964070, 964852, 965620, 966375, 967116, 967843, 968557, 969258, 969946, 970621,
    971283, 971933, 972571, 973197, 973810, 974412, 975002, 975581, 976148, 976705,
    977250, 977784, 978308, 978822, 979325, 979818, 980301, 980774, 981237, 981691,
    982136, 982571, 982997, 983414, 983823, 984222, 984614, 984997, 985371, 985738,
    986097, 986447, 986791, 987126, 987455, 987776, 988089, 988396, 988696, 988989,
    989276, 989556, 989830, 990097, 990358, 990613, 990863, 991106, 991344, 991576,
    991802, 992024, 992240, 992451, 992656, 992857, 993053, 993244, 993431, 993613,
    993790, 993963, 994132, 994297, 994457, 994614, 994766, 994915, 995060, 995201,
    995339, 995473, 995604, 995731, 995855, 995975, 996093, 996207, 996319, 996427,
    996533, 996636, 996736, 996833, 996928, 997020, 997110, 997197, 997282, 997365,
    997445, 997523, 997599, 997673, 997744, 997814, 997882, 997948, 998012, 998074,
    998134, 998193, 998250, 998305, 998359, 998411, 998462, 998511, 998559, 998605,
    998650, 998694, 998736, 998777, 998817, 998856, 998893, 998930, 998965, 998999,
    999032, 999065, 999096, 999126, 999155, 999184, 999211, 999238, 999264, 999289,
    999313, 999336, 999359, 999381, 999402, 999423, 999443, 999462, 999481, 999499,
    999517, 999534, 999550, 999566, 999581, 999596, 999610, 999624, 999638, 999651,
    999663, 999675, 999687, 999698, 999709, 999720, 999730, 999740, 999749, 999758,
    999767, 999776, 999784, 999792, 999800, 999807, 999815, 999822, 999828, 999835,
    999841, 999847, 999853, 999858, 999864, 999869, 999874, 999879, 999883, 999888,
    999892, 999896, 999900, 999904, 999908, 999912, 999915, 999918, 999922, 999925,
    999928, 999931, 999933, 999936, 999938, 999941, 999943, 999946, 999948, 999950,
    999952, 999954, 999956, 999958, 999959, 999961, 999963, 999964, 999966, 999967,
    999968, 999970, 999971, 999972, 999973, 999974, 999975, 999976, 999977, 999978,
    999979, 999980, 999981, 999982, 999983, 999983, 999984, 999985, 999985, 999986,
    999987, 999987, 999988, 999988, 999989, 999989, 999990, 999990, 999991, 999991,
    999991, 999992, 999992, 999993, 999993, 999993, 999993, 999994, 999994, 999994,
    999995, 999995, 999995, 999995, 999996, 999996, 999996, 999996, 999996, 999996,
    999997, 999997, 999997, 999997, 999997, 999997, 999997, 999998, 999998, 999998,
    999998, 999998, 999998, 999998, 999998, 999998, 999998, 999998, 999999, 999999,
    999999, 999999, 999999, 999999, 999999, 999999, 999999, 999999, 999999, 999999,
    999999, 999999, 999999, 999999, 999999, 999999, 999999, 999999, 999999, 999999,
    1000000, 1000000, 1000000, 1000000, 1000000, 1000000, 1000000, 1000000, 1000000, 1000000
 >>

\* resolution of the tables
ZCap == Len(PhiMicro)
Hundred == 10 ^ 2
Million == 10 ^ 6

PhiAt(k) == IF k >= ZCap THEN Million ELSE PhiMicro[k + 1]

\* scipy_stats.norm.cdf(z)
norm_cdf(z) ==
    CASE z.t = "nan" -> NaN
      [] z.t = "inf" -> IF z.n > 0 THEN F(1, 1) ELSE F(0, 1)
      [] OTHER ->
            LET k == (Abs(z.n) * Hundred) \div z.d
            IN  IF z.n >= 0 THEN F(PhiAt(k), Million)
                ELSE F(Million - PhiAt(k), Million)

\* scipy_stats.chi2.cdf(x, df=1) = 2 * Phi(sqrt(x)) - 1 for x > 0, 0 otherwise
chi2_cdf(x) ==
    CASE x.t = "nan" -> NaN
      [] x.t = "inf" -> IF x.n > 0 THEN F(1, 1) ELSE F(0, 1)
      [] x.n <= 0 -> F(0, 1)
      [] OTHER -> F(2 * PhiAt(ScaledSqrt(x, Hundred, ZCap)) - Million, Million)

\* log2 in millionths, at x = k/1000 for k = 1..1000.
Log2Micro ==
 <<
    -9965784, -8965784, -8380822, -7965784, -7643856, -7380822, -7158429, -6965784, -6795859, -6643856,
    -6506353, -6380822, -6265345, -6158429, -6058894, -5965784, -5878321, -5795859, -5717857, -5643856,
    -5573467, -5506353, -5442222, -5380822, -5321928, -5265345, -5210897, -5158429, -5107803, -5058894,
    -5011588, -4965784, -4921390, -4878321, -4836501, -4795859, -4756331, -4717857, -4680382, -4643856,
    -4608232, -4573467, -4539520, -4506353, -4473931, -4442222, -4411195, -4380822, -4351074, -4321928,
    -4293359, -4265345, -4237864, -4210897, -4184425, -4158429, -4132894, -4107803, -4083141, -4058894,
    -4035047, -4011588, -3988504, -3965784, -3943416, -3921390, -3899695, -3878321, -3857260, -3836501,
    -3816037, -3795859, -3775960, -3756331, -3736966, -3717857, -3698998, -3680382, -3662004, -3643856,
    -3625934, -3608232, -3590745, -3573467, -3556393, -3539520, -3522841, -3506353, -3490051, -3473931,
    -3457990, -3442222, -3426625, -3411195, -3395929, -3380822, -3365871, -3351074, -3336428, -3321928,
    -3307573, -3293359, -3279284, -3265345, -3251539, -3237864, -3224317, -3210897, -3197600, -3184425,
    -3171368, -3158429, -3145605, -3132894, -3120294, -3107803, -3095420, -3083141, -3070967, -3058894,
    -3046921, -3035047, -3023270, -3011588, -3000000, -2988504, -2977100, -2965784, -2954557, -2943416,
    -2932361, -2921390, -2910502, -2899695, -2888969, -2878321, -2867752, -2857260, -2846843, -2836501,
    -2826233, -2816037, -2805913, -2795859, -2785875, -2775960, -2766112, -2756331, -2746616, -2736966,
    -2727380, -2717857, -2708396, -2698998, -2689660, -2680382, -2671164, -2662004, -2652901, -2643856,
    -2634867, -2625934, -2617056, -2608232, -2599462, -2590745, -2582080, -2573467, -2564905, -2556393,
    -2547932, -2539520, -2531156, -2522841, -2514573, -2506353, -2498179, -2490051, -2481969, -2473931,
    -2465938, -2457990, -2450084, -2442222, -2434403, -2426625, -2418890, -2411195, -2403542, -2395929,
    -2388355, -2380822, -2373327, -2365871, -2358454, -2351074, -2343732, -2336428, -2329160, -2321928,
    -2314733, -2307573, -2300448, -2293359, -2286304, -2279284, -2272297, -2265345, -2258425, -2251539,
    -2244685, -2237864, -2231075, -2224317, -2217591, -2210897, -2204233, -2197600, -2190997, -2184425,
    -2177882, -2171368, -2164884, -2158429, -2152003, -2145605, -2139236, -2132894, -2126580, -2120294,
    -2114035, -2107803, -2101598, -2095420, -2089267, -2083141, -2077041, -2070967, -2064917, -2058894,
    -2052895, -2046921, -2040972, -2035047, -2029146, -2023270, -2017417, -2011588, -2005782, -2000000,
    -1994241, -1988504, -1982791, -1977100, -1971431, -1965784, -1960160, -1954557, -1948976, -1943416,
    -1937878, -1932361, -1926865, -1921390, -1915936, -1910502, -1905088, -1899695, -1894322, -1888969,
    -1883635, -1878321, -1873027, -1867752, -1862496, -1857260, -1852042, -1846843, -1841663, -1836501,
    -1831358, -1826233, -1821126, -1816037, -1810966, -1805913, -1800877, -1795859, -1790859, -1785875,
    -1780909, -1775960, -1771027, -1766112, -1761213, -1756331, -1751465, -1746616, -1741783, -1736966,
    -1732165, -1727380, -1722610, -1717857, -1713119, -1708396, -1703689, -1698998, -1694321, -1689660,
    -1685014, -1680382, -1675765, -1671164, -1666576, -1662004, -1657445, -1652901, -1648372, -1643856,
    -1639355, -1634867, -1630394, -1625934, -1621488, -1617056, -1612637, -1608232, -1603841, -1599462,
    -1595097, -1590745, -1586406, -1582080, -1577767, -1573467, -1569180, -1564905, -1560643, -1556393,
    -1552156, -1547932, -1543720, -1539520, -1535332, -1531156, -1526992, -1522841, -1518701, -1514573,
    -1510457, -1506353, -1502260, -1498179, -1494109, -1490051, -1486004, -1481969, -1477944, -1473931,
    -1469929, -1465938, -1461959, -1457990, -1454032, -1450084, -1446148, -1442222, -1438307, -1434403,
    -1430509, -1426625, -1422752, -1418890, -1415037, -1411195, -1407364, -1403542, -1399730, -1395929,
    -1392137, -1388355, -1384584, -1380822, -1377070, -1373327, -1369595, -1365871, -1362158, -1358454,
    -1354759, -1351074, -1347399, -1343732, -1340075, -1336428, -1332789, -1329160, -1325539, -1321928,
    -1318326, -1314733, -1311148, -1307573, -1304006, -1300448, -1296899, -1293359, -1289827, -1286304,
    -1282790, -1279284, -1275786, -1272297, -1268817, -1265345, -1261881, -1258425, -1254978, -1251539,
    -1248108, -1244685, -1241270, -1237864, -1234465, -1231075, -1227692, -1224317, -1220950, -1217591,
    -1214240, -1210897, -1207561, -1204233, -1200913, -1197600, -1194295, -1190997, -1187707, -1184425,
    -1181149, -1177882, -1174621, -1171368, -1168123, -1164884, -1161653, -1158429, -1155213, -1152003,
    -1148801, -1145605, -1142417, -1139236, -1136062, -1132894, -1129734, -1126580, -1123434, -1120294,
    -1117161, -1114035, -1110916, -1107803, -1104697, -1101598, -1098506, -1095420, -1092340, -1089267,
    -1086201, -1083141, -1080088, -1077041, -1074001, -1070967, -1067939, -1064917, -1061902, -1058894,
    -1055891, -1052895, -1049905, -1046921, -1043943, -1040972, -1038006, -1035047, -1032094, -1029146,
    -1026205, -1023270, -1020340, -1017417, -1014500, -1011588, -1008682, -1005782, -1002888, -1000000,
    -997117, -994241, -991370, -988504, -985645, -982791, -979942, -977100, -974262, -971431,
    -968605, -965784, -962969, -960160, -957356, -954557, -951764, -948976, -946194, -943416,
    -940645, -937878, -935117, -932361, -929611, -926865, -924125, -921390, -918660, -915936,
    -913216, -910502, -907793, -905088, -902389, -899695, -897006, -894322, -891643, -888969,
    -886300, -883635, -880976, -878321, -875672, -873027, -870387, -867752, -865122, -862496,
    -859876, -857260, -854649, -852042, -849440, -846843, -844251, -841663, -839080, -836501,
    -833927, -831358, -828793, -826233, -823677, -821126, -818579, -816037, -813499, -810966,
    -808437, -805913, -803393, -800877, -798366, -795859, -793357, -790859, -788365, -785875,
    -783390, -780909, -778432, -775960, -773491, -771027, -768568, -766112, -763660, -761213,
    -758770, -756331, -753896, -751465, -749038, -746616, -744197, -741783, -739372, -736966,
    -734563, -732165, -729770, -727380, -724993, -722610, -720232, -717857, -715486, -713119,
    -710756, -708396, -706041, -703689, -701342, -698998, -696658, -694321, -691989, -689660,
    -687335, -685014, -682696, -680382, -678072, -675765, -673463, -671164, -668868, -666576,
    -664288, -662004, -659723, -657445, -655172, -652901, -650635, -648372, -646112, -643856,
    -641604, -639355, -637109, -634867, -632629, -630394, -628162, -625934, -623710, -621488,
    -619271, -617056, -614845, -612637, -610433, -608232, -606035, -603841, -601650, -599462,
    -597278, -595097, -592919, -590745, -588574, -586406, -584241, -582080, -579922, -577767,
    -575615, -573467, -571322, -569180, -567041, -564905, -562772, -560643, -558517, -556393,
    -554273, -552156, -550043, -547932, -545824, -543720, -541618, -539520, -537424, -535332,
    -533242, -531156, -529073, -526992, -524915, -522841, -520769, -518701, -516636, -514573,
    -512514, -510457, -508403, -506353, -504305, -502260, -500218, -498179, -496142, -494109,
    -492079, -490051, -488026, -486004, -483985, -481969, -479955, -477944, -475936, -473931,
    -471929, -469929, -467932, -465938, -463947, -461959, -459973, -457990, -456009, -454032,
    -452057, -450084, -448115, -446148, -444184, -442222, -440263, -438307, -436354, -434403,
    -432455, -430509, -428566, -426625, -424688, -422752, -420820, -418890, -416962, -415037,
    -413115, -411195, -409278, -407364, -405451, -403542, -401635, -399730, -397828, -395929,
    -394032, -392137, -390245, -388355, -386468, -384584, -382702, -380822, -378944, -377070,
    -375197, -373327, -371460, -369595, -367732, -365871, -364013, -362158, -360305, -358454,
    -356606, -354759, -352916, -351074, -349235, -347399, -345564, -343732, -341903, -340075,
    -338250, -336428, -334607, -332789, -330973, -329160, -327348, -325539, -323733, -321928,
    -320126, -318326, -316528, -314733, -312939, -311148, -309359, -307573, -305788, -304006,
    -302226, -300448, -298673, -296899, -295128, -293359, -291592, -289827, -288065, -286304,
    -284546, -282790, -281036, -279284, -277534, -275786, -274041, -272297, -270556, -268817,
    -267080, -265345, -263612, -261881, -260152, -258425, -256700, -254978, -253257, -251539,
    -249822, -248108, -246395, -244685, -242977, -241270, -239566, -237864, -236164, -234465,
    -232769, -231075, -229382, -227692, -226004, -224317, -222633, -220950, -219270, -217591,
    -215915, -214240, -212568, -210897, -209228, -207561, -205896, -204233, -202572, -200913,
    -199255, -197600, -195946, -194295, -192645, -190997, -189351, -187707, -186065, -184425,
    -182786, -181149, -179515, -177882, -176251, -174621, -172994, -171368, -169745, -168123,
    -166503, -164884, -163268, -161653, -160040, -158429, -156820, -155213, -153607, -152003,
    -150401, -148801, -147202, -145605, -144010, -142417, -140826, -139236, -137648, -136062,
    -134477, -132894, -131313, -129734, -128156, -126580, -125006, -123434, -121863, -120294,
    -118727, -117161, -115597, -114035, -112475, -110916, -109359, -107803, -106249, -104697,
    -103147, -101598, -100051, -98506, -96962, -95420, -93879, -92340, -90803, -89267,
    -87733, -86201, -84670, -83141, -81614, -80088, -78564, -77041, -75520, -74001,
    -72483, -70967, -69452, -67939, -66427, -64917, -63409, -61902, -60397, -58894,
    -57392, -55891, -54392, -52895, -51399, -49905, -48412, -46921, -45431, -43943,
    -42457, -40972, -39488, -38006, -36526, -35047, -33570, -32094, -30619, -29146,
    -27675, -26205, -24737, -23270, -21804, -20340, -18878, -17417, -15958, -14500,
    -13043, -11588, -10134, -8682, -7232, -5782, -4335, -2888, -1443, 0
 >>

Thousand == 10 ^ 3

\* np.log2(x) for 0 < x <= 1, x taken to the nearest thousandth
np_log2(x) ==
    LET k == (2 * Thousand * x.n + x.d) \div (2 * x.d)
    IN  IF k = 0 THEN Inf(-1) ELSE F(Log2Micro[k], Million)

----------------------------------------------------------------------------
\* Lists, strings and unbounded ints.

\* fault: the first element is not counted
list_count_skips_first(m, v) == Cardinality({i \in 2..Len(m) : m[i] = v})

\* list.count(v)
list_count(m, v) == Cardinality({i \in 1..Len(m) : m[i] = v})

\* str(bit)
str(b) == IF b = 0 THEN "0" ELSE "1"

\* ''.join(map(str, m))
join_str(m) == [i \in 1..Len(m) |-> str(m[i])]

RECURSIVE StripLeadingZeros(_)
StripLeadingZeros(bits) ==
    IF bits = <<>> THEN <<>>
    ELSE IF Head(bits) = 0 THEN StripLeadingZeros(Tail(bits))
    ELSE bits

\* int(s, 2) for a non-empty string of binary digits
int_base2(s) == StripLeadingZeros([i \in 1..Len(s) |-> IF s[i] = "1" THEN 1 ELSE 0])

HexDigits == <<"0", "1", "2", "3", "4", "5", "6", "7",
               "8", "9", "a", "b", "c", "d", "e", "f">>

\* fault: the groups of four bits are counted from the most significant bit
hex_from_left(d) ==
    IF d = <<>> THEN <<"0", "x", "0">>
    ELSE LET pad == (4 - (Len(d) % 4)) % 4
             bits == d \o [i \in 1..pad |-> 0]
             nib(j) == 8 * bits[4 * j - 3] + 4 * bits[4 * j - 2]
                       + 2 * bits[4 * j - 1] + bits[4 * j]
         IN  <<"0", "x">> \o [j \in 1..(Len(bits) \div 4) |-> HexDigits[nib(j) + 1]]

\* hex(d): "0x", then one lowercase digit per group of four bits, the groups
\* counted from the least significant bit; "0x0" for zero
hex(d) ==
    IF d = <<>> THEN <<"0", "x", "0">>
    ELSE LET pad == (4 - (Len(d) % 4)) % 4
             bits == [i \in 1..pad |-> 0] \o d
             nib(j) == 8 * bits[4 * j - 3] + 4 * bits[4 * j - 2]
                       + 2 * bits[4 * j - 1] + bits[4 * j]
         IN  <<"0", "x">> \o [j \in 1..(Len(bits) \div 4) |-> HexDigits[nib(j) + 1]]

\* int(s, 16): an optional "0x" prefix, then hexadecimal digits
int_base16(s) ==
    LET body == IF Len(s) >= 2 /\ s[1] = "0" /\ s[2] = "x"
                THEN SubSeq(s, 3, Len(s)) ELSE s
        val(c) == (CHOOSE v \in 1..16 : HexDigits[v] = c) - 1
        bit(i) == LET v == val(body[((i - 1) \div 4) + 1])
                      k == (i - 1) % 4
                  IN  (v \div (2 ^ (3 - k))) % 2
    IN  StripLeadingZeros([i \in 1..(4 * Len(body)) |-> bit(i)])

\* fault: the string is padded but not cut (the [:width] is missing)
ljust_uncut(s, width) ==
    [i \in 1..(IF Len(s) > width THEN Len(s) ELSE width) |->
        IF i <= Len(s) THEN s[i] ELSE "0"]

\* fault: the string is padded on the left (rjust)
rjust_cut(s, width) ==
    LET pad == IF Len(s) < width THEN width - Len(s) ELSE 0
    IN  [i \in 1..width |-> IF i <= pad THEN "0" ELSE s[i - pad]]

\* s.ljust(width, '0')[:width]
ljust_cut(s, width) ==
    [i \in 1..width |-> IF i <= Len(s) THEN s[i] ELSE "0"]

\* The number a PyInt stands for (for ints that fit TLC's integers).
RECURSIVE NatValue(_)
NatValue(d) ==
    IF d = <<>> THEN 0 ELSE 2 * NatValue(SubSeq(d, 1, Len(d) - 1)) + d[Len(d)]

----------------------------------------------------------------------------
\* QuantumRandomNumberGenerator: the encodings of self.measurements.

to_binary_string(m) ==
    IF m = <<>> THEN Raise("ValueError") ELSE Return(join_str(m))

to_decimal(m) ==
    LET binary_str == to_binary_string(m)
    IN  IF binary_str.kind = "raise" THEN binary_str
        ELSE Return(int_base2(binary_str.value))

to_hex(m) ==
    LET decimal == to_decimal(m)
    IN  IF decimal.kind = "raise" THEN decimal
        ELSE Return(hex(decimal.value))

\* decimal / (2 ** 32): the float k / 2^32, exact in a double since k < 2^32
FloatBits == 32

to_float(m) ==
    LET binary_str == to_binary_string(m)
    IN  IF binary_str.kind = "raise" THEN binary_str
        ELSE Return([num |-> int_base2(ljust_cut(binary_str.value, FloatBits)),
                     den_log2 |-> FloatBits])

\* fault: the term is added (entropy += p * log2(p))
entropy_term_added(entropy, p) ==
    IF FGt(p, F(0, 1)) THEN FAdd(entropy, FMul(p, np_log2(p))) ELSE entropy

\* fault: no test of p > 0, so that 0 * log2(0) = 0 * -inf is computed
entropy_term_unguarded(entropy, p) == FSub(entropy, FMul(p, np_log2(p)))

\* entropy -= p * np.log2(p), skipped when p is not > 0
entropy_term(entropy, p) ==
    IF FGt(p, F(0, 1)) THEN FSub(entropy, FMul(p, np_log2(p))) ELSE entropy

shannon_entropy(prob_0, prob_1) ==
    entropy_term(entropy_term(F(0, 1), prob_0), prob_1)

get_statistics(m) ==
    IF m = <<>> THEN Raise("ValueError")
    ELSE LET total == Len(m)
             count_0 == list_count(m, 0)
             count_1 == list_count(m, 1)
             prob_0 == F(count_0, total)
             prob_1 == F(count_1, total)
             entropy == shannon_entropy(prob_0, prob_1)
         IN  Return([total_measurements |-> total,
                     count_0 |-> count_0,
                     count_1 |-> count_1,
                     probability_0 |-> prob_0,
                     probability_1 |-> prob_1,
                     shannon_entropy |-> entropy,
                     max_entropy |-> F(1, 1),
                     entropy_ratio |-> FDiv(entropy, F(1, 1))])

----------------------------------------------------------------------------
\* RandomnessTests.

\* fault: the tests compare with 0.01
Significance_strict == F(1, 100)

\* the significance level both tests compare p_value with
Significance == F(5, 100)

\* fault: the class of ones is left out of the sum
chi_square_zeros_only(count_0, count_1, expected_count) ==
    LET diff == FSub(F(count_0, 1), expected_count)
    IN  FDiv(FMul(diff, diff), expected_count)

\* (count_0 - expected_count) ** 2 / expected_count +
\* (count_1 - expected_count) ** 2 / expected_count, for expected_count # 0
chi_square(count_0, count_1, expected_count) ==
    LET term(c) == LET diff == FSub(F(c, 1), expected_count)
                   IN  FDiv(FMul(diff, diff), expected_count)
    IN  FAdd(term(count_0), term(count_1))

chi_square_test(m, expected_prob) ==
    LET count_0 == list_count(m, 0)
        count_1 == list_count(m, 1)
        total == Len(m)
        expected_count == FMul(F(total, 1), expected_prob)
        statistic == chi_square(count_0, count_1, expected_count)
        p_value == FSub(F(1, 1), chi2_cdf(statistic))
    IN  IF expected_count.n = 0 THEN Raise("ZeroDivisionError")
        ELSE Return([chi_square_statistic |-> statistic,
                     p_value |-> p_value,
                     passes_test |-> FGt(p_value, Significance),
                     interpretation |-> IF FGt(p_value, Significance)
                                        THEN "Random" ELSE "Not random"])

\* fault: the first run is not counted (runs = 0)
runs_count_from_zero(m) == Cardinality({i \in 2..Len(m) : m[i] # m[i - 1]})

\* runs = 1, then one more for every i in range(1, len) with m[i] != m[i-1]
runs_count(m) == 1 + Cardinality({i \in 2..Len(m) : m[i] # m[i - 1]})

\* np.sqrt(x): NaN for a negative x; otherwise the root, kept exact as the
\* fraction under the root
np_sqrt(x) ==
    IF x.n < 0 THEN NaN
    ELSE IF x.n = 0 THEN F(0, 1)
    ELSE [t |-> "sqrt", n |-> x.n, d |-> x.d]

\* a / s for a Python float a and the numpy float s = np.sqrt(..): numpy
\* divides by zero without raising (0/0 is NaN, x/0 is +/-Inf; a finite s is
\* the root of 0); the quotient is kept to hundredths, truncated towards
\* zero, up to the end of the table of the normal distribution
np_truediv(a, s) ==
    CASE s.t = "nan" -> NaN
      [] s.t = "fin" -> IF a.n = 0 THEN NaN ELSE Inf(IF a.n > 0 THEN 1 ELSE -1)
      [] OTHER ->
            LET q == FDiv(FMul(a, a), F(s.n, s.d))
                k == ScaledSqrt(q, Hundred, ZCap)
            IN  F(IF a.n < 0 THEN -k ELSE k, Hundred)

\* (2 * n0 * n1) / n + 1, for n # 0
expected_runs(n0, n1, n) == FAdd(F(2 * n0 * n1, n), F(1, 1))

\* fault: n ** 2 is subtracted in the numerator
variance_minus_square(n0, n1, n) ==
    F(2 * n0 * n1 * (2 * n0 * n1 - n ^ 2), (n ^ 2) * (n - 1))

\* fault: n instead of n ** 2 in the divisor
variance_unsquared(n0, n1, n) == F(2 * n0 * n1 * (2 * n0 * n1 - n), n * (n - 1))

\* (2 * n0 * n1 * (2 * n0 * n1 - n)) / (n ** 2 * (n - 1)), for a divisor # 0
variance(n0, n1, n) == F(2 * n0 * n1 * (2 * n0 * n1 - n), (n ^ 2) * (n - 1))

\* fault: a one-sided test that looks for too few runs only
lower_tail_p(z_score) == norm_cdf(z_score)

\* 2 * (1 - scipy_stats.norm.cdf(abs(z_score)))
two_sided_p(z_score) ==
    LET cdf == norm_cdf(FAbs(z_score))
    IN  IF IsNaN(cdf) THEN NaN ELSE FMul(F(2, 1), FSub(F(1, 1), cdf))

runs_test(m) ==
    LET runs == runs_count(m)
        n0 == list_count(m, 0)
        n1 == list_count(m, 1)
        n == Len(m)
        z_score == np_truediv(FSub(F(runs, 1), expected_runs(n0, n1, n)),
                              np_sqrt(variance(n0, n1, n)))
        p_value == two_sided_p(z_score)
    IN  IF n = 0 \/ (n ^ 2) * (n - 1) = 0 THEN Raise("ZeroDivisionError")
        ELSE Return([runs_count |-> runs,
                     expected_runs |-> expected_runs(n0, n1, n),
                     z_score |-> z_score,
                     p_value |-> p_value,
                     passes_test |-> FGt(p_value, Significance),
                     interpretation |-> IF FGt(p_value, Significance)
                                        THEN "Random" ELSE "Clustered"])

\* fault: the breakpoints belong to the upper tier (>=)
quality_inclusive(entropy_ratio) ==
    IF FGe(entropy_ratio, F(95, 100)) THEN "Excellent"
    ELSE IF FGe(entropy_ratio, F(85, 100)) THEN "Good"
    ELSE "Poor"

\* 'Excellent' if r > 0.95 else 'Good' if r > 0.85 else 'Poor'
quality(entropy_ratio) ==
    IF FGt(entropy_ratio, F(95, 100)) THEN "Excellent"
    ELSE IF FGt(entropy_ratio, F(85, 100)) THEN "Good"
    ELSE "Poor"

\* generate_command's report: the same conditional expression
generate_quality(entropy_ratio) ==
    IF FGt(entropy_ratio, F(95, 100)) THEN "Excellent"
    ELSE IF FGt(entropy_ratio, F(85, 100)) THEN "Good"
    ELSE "Poor"

\* the web page's metric
ui_quality(entropy_ratio) ==
    IF FGt(entropy_ratio, F(95, 100)) THEN "Excellent"
    ELSE IF FGt(entropy_ratio, F(85, 100)) THEN "Good"
    ELSE "Poor"

\* plot_statistics: the colour of the entropy bar (green, orange, red)
plot_colour(entropy_ratio) ==
    IF FGt(entropy_ratio, F(95, 100)) THEN "#2ecc71"
    ELSE IF FGt(entropy_ratio, F(85, 100)) THEN "#f39c12"
    ELSE "#e74c3c"

entropy_test(m) ==
    LET total == Len(m)
        count_0 == list_count(m, 0)
        count_1 == list_count(m, 1)
        prob_0 == F(count_0, total)
        prob_1 == F(count_1, total)
        entropy == shannon_entropy(prob_0, prob_1)
        max_entropy == F(1, 1)
        entropy_ratio == FDiv(entropy, max_entropy)
    IN  IF total = 0 THEN Raise("ZeroDivisionError")
        ELSE Return([shannon_entropy |-> entropy,
                     max_entropy |-> max_entropy,
                     entropy_ratio |-> entropy_ratio,
                     quality |-> quality(entropy_ratio)])

\* fault: one passing test is enough
overall_assessment_either(chi_result, runs_result, entropy_result) ==
    LET all_pass == chi_result.passes_test \/ runs_result.passes_test
    IN  IF all_pass /\ FGt(entropy_result.entropy_ratio, F(95, 100)) THEN "EXCELLENT"
        ELSE IF all_pass THEN "GOOD"
        ELSE "NEEDS IMPROVEMENT"

\* all_pass = chi_square['passes_test'] and runs['passes_test']
\* 'EXCELLENT' if all_pass and entropy['entropy_ratio'] > 0.95
\*     else 'GOOD' if all_pass else 'NEEDS IMPROVEMENT'
overall_assessment(chi_result, runs_result, entropy_result) ==
    LET all_pass == chi_result.passes_test /\ runs_result.passes_test
    IN  IF all_pass /\ FGt(entropy_result.entropy_ratio, F(95, 100)) THEN "EXCELLENT"
        ELSE IF all_pass THEN "GOOD"
        ELSE "NEEDS IMPROVEMENT"

\* compare_with_classical_random(num_samples), for the bits random.randint
\* drew
compare_with_classical_random(classical_bits, num_samples) ==
    LET count_0 == list_count(classical_bits, 0)
        count_1 == list_count(classical_bits, 1)
    IN  IF num_samples = 0 THEN Raise("ZeroDivisionError")
        ELSE Return([count_0 |-> count_0,
                     count_1 |-> count_1,
                     probability_0 |-> F(count_0, num_samples),
                     probability_1 |-> F(count_1, num_samples)])

\* a / b for the numpy float a (an entropy ratio) and a float b: numpy
\* divides by zero without raising (0/0 is NaN, x/0 is +/-Inf)
np_divide(a, b) ==
    CASE a.t = "nan" \/ b.t = "nan" -> NaN
      [] b.n = 0 -> IF a.n = 0 THEN NaN ELSE Inf(IF a.n > 0 THEN 1 ELSE -1)
      [] OTHER -> FDiv(a, b)

\* quantum_stats['entropy_ratio'] / classical_stats['probability_0']
compare_ratio(quantum_stats, classical_stats) ==
    np_divide(quantum_stats.entropy_ratio, classical_stats.probability_0)

----------------------------------------------------------------------------
\* Inputs.

BitLists(maxlen) == UNION {[1..n -> {0, 1}] : n \in 0..maxlen}

\* a zeros followed by b ones
Block(a, b) == [i \in 1..(a + b) |-> IF i <= a THEN 0 ELSE 1]

\* expected_prob arguments of chi_square_test (0.5 is the default)
ExpectedProbs == {F(0, 1), F(1, 2), F(1, 1)}

\* result.get_counts(circuit) for c0 shots that measured 0 and c1 that
\* measured 1: only observed outcomes are keys; the order of the keys is the
\* library's
get_counts(c0, c1, zero_first) ==
    LET zero == IF c0 > 0 THEN <<(<<"0", c0>>)>> ELSE <<>>
        one == IF c1 > 0 THEN <<(<<"1", c1>>)>> ELSE <<>>
    IN  IF zero_first THEN zero \o one ELSE one \o zero

\* int(bitstring)
int_bitstring(key) == IF key = "1" THEN 1 ELSE 0

\* measurements = []; for bitstring, count in counts.items():
\*     measurements.extend([int(bitstring)] * count)
RECURSIVE expand(_)
expand(items) ==
    IF items = <<>> THEN <<>>
    ELSE [i \in 1..Head(items)[2] |-> int_bitstring(Head(items)[1])]
         \o expand(Tail(items))

\* a session value that may be None: <<>> is None, <<v>> is the value v
None == <<>>
Some(v) == <<v>>

\* init_session_state() on the first run of the page
NoSession == [qrng |-> None, measurements |-> None, stats |-> None]

NoCall == [op |-> "none", args |-> <<>>, out |-> Return("None")]
Call(op, args, out) == [op |-> op, args |-> args, out |-> out]

----------------------------------------------------------------------------
\* The generator's life cycle.

\* __init__
Init ==
    /\ measurements = <<>>
    /\ counts = <<>>
    /\ sample = <<>>
    /\ result = NoCall
    /\ session = NoSession

\* fault: the new bits are appended to the stored list
GenerateRandomBits_appends ==
    \E num_measurements \in 1..MaxShots :
      \E c0 \in 0..num_measurements, zero_first \in BOOLEAN :
        LET new_counts == get_counts(c0, num_measurements - c0, zero_first)
        IN  /\ Len(measurements) + num_measurements <= 2 * MaxShots
            /\ counts' = new_counts
            /\ UNCHANGED session
            /\ measurements' = measurements \o expand(new_counts)
            /\ sample' = measurements \o expand(new_counts)
            /\ result' = Call("generate_random_bits", <<num_measurements>>,
                              Return(measurements \o expand(new_counts)))

\* fault: the bits are kept in the order of the shots (memory=True)
GenerateRandomBits_per_shot ==
    \E num_measurements \in 1..MaxShots :
      \E memory \in [1..num_measurements -> {0, 1}] :
        LET new_counts == get_counts(list_count(memory, 0),
                                     list_count(memory, 1), memory[1] = 0)
        IN  /\ counts' = new_counts
            /\ UNCHANGED session
            /\ measurements' = memory
            /\ sample' = memory
            /\ result' = Call("generate_random_bits", <<num_measurements>>,
                              Return(memory))

\* measurements = qrng.generate_random_bits(num_measurements)
GenerateRandomBits ==
    \E num_measurements \in 1..MaxShots :
      \E c0 \in 0..num_measurements, zero_first \in BOOLEAN :
        LET new_counts == get_counts(c0, num_measurements - c0, zero_first)
        IN  /\ counts' = new_counts
            /\ UNCHANGED session
            /\ measurements' = expand(new_counts)
            /\ sample' = expand(new_counts)
            /\ result' = Call("generate_random_bits", <<num_measurements>>,
                              Return(expand(new_counts)))

\* fault: reset forgets the counts
Reset_keeps_counts ==
    /\ measurements' = <<>>
    /\ result' = Call("reset", <<>>, Return("None"))
    /\ UNCHANGED <<counts, sample, session>>

Reset ==
    /\ measurements' = <<>>
    /\ counts' = <<>>
    /\ result' = Call("reset", <<>>, Return("None"))
    /\ UNCHANGED <<sample, session>>

ToBinaryString ==
    /\ result' = Call("to_binary_string", <<measurements>>, to_binary_string(measurements))
    /\ UNCHANGED <<measurements, counts, sample, session>>

ToDecimal ==
    /\ result' = Call("to_decimal", <<measurements>>, to_decimal(measurements))
    /\ UNCHANGED <<measurements, counts, sample, session>>

ToHex ==
    /\ result' = Call("to_hex", <<measurements>>, to_hex(measurements))
    /\ UNCHANGED <<measurements, counts, sample, session>>

\* fault: to_float pads or cuts the stored list itself
ToFloat_in_place ==
    /\ result' = Call("to_float", <<measurements>>, to_float(measurements))
    /\ measurements' = IF measurements = <<>> THEN <<>>
                       ELSE [i \in 1..FloatBits |->
                               IF i <= Len(measurements) THEN measurements[i] ELSE 0]
    /\ UNCHANGED <<counts, sample, session>>

ToFloat ==
    /\ result' = Call("to_float", <<measurements>>, to_float(measurements))
    /\ UNCHANGED <<measurements, counts, sample, session>>

GetStatistics ==
    /\ result' = Call("get_statistics", <<measurements>>, get_statistics(measurements))
    /\ UNCHANGED <<measurements, counts, sample, session>>

ChiSquareTest ==
    \E expected_prob \in ExpectedProbs :
        /\ result' = Call("chi_square_test", <<sample, expected_prob>>,
                          chi_square_test(sample, expected_prob))
        /\ UNCHANGED <<measurements, counts, sample, session>>

RunsTest ==
    /\ result' = Call("runs_test", <<sample>>, runs_test(sample))
    /\ UNCHANGED <<measurements, counts, sample, session>>

EntropyTest ==
    /\ result' = Call("entropy_test", <<sample>>, entropy_test(sample))
    /\ UNCHANGED <<measurements, counts, sample, session>>

\* what each place that labels an entropy ratio makes of the ratio
ClassifyRatio ==
    \E entropy_ratio \in {F(k, Thousand) : k \in 0..Thousand} :
        /\ result' = Call("classify", <<entropy_ratio>>,
                          Return([entropy_test |-> quality(entropy_ratio),
                                  generate_command |-> generate_quality(entropy_ratio),
                                  web_ui |-> ui_quality(entropy_ratio),
                                  plot_statistics |-> plot_colour(entropy_ratio)]))
        /\ UNCHANGED <<measurements, counts, sample, session>>

\* compare_command, on a generator of its own
CompareCommand ==
    \E count \in 1..MaxShots :
      \E c0 \in 0..count, zero_first \in BOOLEAN, classical_bits \in [1..count -> {0, 1}] :
        LET new_counts == get_counts(c0, count - c0, zero_first)
            quantum_stats == get_statistics(expand(new_counts))
            classical_stats == compare_with_classical_random(classical_bits, count)
        IN  /\ counts' = new_counts
            /\ UNCHANGED session
            /\ measurements' = expand(new_counts)
            /\ sample' = expand(new_counts)
            /\ result' = Call("compare_command", <<count, classical_bits>>,
                   IF quantum_stats.kind = "raise" THEN quantum_stats
                   ELSE IF classical_stats.kind = "raise" THEN classical_stats
                   ELSE Return([quantum_stats |-> quantum_stats.value,
                                classical_stats |-> classical_stats.value,
                                ratio |-> compare_ratio(quantum_stats.value,
                                                        classical_stats.value)]))

\* analyze_command, on a generator of its own: the three tests in turn, the
\* first exception ends the command
AnalyzeCommand ==
    \E count \in 1..MaxAnalyze :
      \E c0 \in 0..count, zero_first \in BOOLEAN :
        LET new_counts == get_counts(c0, count - c0, zero_first)
            chi_result == chi_square_test(expand(new_counts), F(1, 2))
            runs_result == runs_test(expand(new_counts))
            entropy_result == entropy_test(expand(new_counts))
        IN  /\ counts' = new_counts
            /\ UNCHANGED session
            /\ measurements' = expand(new_counts)
            /\ sample' = expand(new_counts)
            /\ result' = Call("analyze_command", <<count>>,
                   IF chi_result.kind = "raise" THEN chi_result
                   ELSE IF runs_result.kind = "raise" THEN runs_result
                   ELSE IF entropy_result.kind = "raise" THEN entropy_result
                   ELSE Return([chi_square |-> chi_result.value,
                                runs |-> runs_result.value,
                                entropy |-> entropy_result.value,
                                assessment |-> overall_assessment(chi_result.value,
                                                  runs_result.value, entropy_result.value)]))

\* "Generate Random Numbers": a new generator, its bits and its statistics
\* are cached together; the rest of the tab displays them
PressGenerate ==
    \E num_measurements \in 1..MaxPress :
      \E c0 \in 0..num_measurements, zero_first \in BOOLEAN :
        LET new_counts == get_counts(c0, num_measurements - c0, zero_first)
            stats == get_statistics(expand(new_counts))
        IN  /\ stats.kind = "return"
            /\ session' = [qrng |-> Some([measurements |-> expand(new_counts),
                                          counts |-> new_counts]),
                           measurements |-> Some(expand(new_counts)),
                           stats |-> Some(stats.value)]
            /\ result' = Call("gen_btn", <<num_measurements>>, Return("success"))
            /\ UNCHANGED <<measurements, counts, sample>>

\* "Run Analysis": a warning while no measurements are cached, else the
\* three tests on the cached measurements
PressAnalyze ==
    LET m == session.measurements[1]
        chi_result == chi_square_test(m, F(1, 2))
        runs_result == runs_test(m)
        entropy_result == entropy_test(m)
    IN  /\ result' = Call("ana_btn", <<session.measurements>>,
               IF session.measurements = None THEN Return([warning |-> TRUE, tests |-> <<>>])
               ELSE IF chi_result.kind = "raise" THEN chi_result
               ELSE IF runs_result.kind = "raise" THEN runs_result
               ELSE IF entropy_result.kind = "raise" THEN entropy_result
               ELSE Return([warning |-> FALSE,
                            tests |-> <<chi_result.value, runs_result.value,
                                        entropy_result.value>>]))
        /\ UNCHANGED <<measurements, counts, sample, session>>

\* "Generate Visualizations": a warning while no measurements are cached,
\* else the four plots of the cached measurements and statistics
PressVisualize ==
    LET m == session.measurements[1]
        stats == session.stats[1]
    IN  /\ result' = Call("vis_btn", <<session.measurements>>,
               IF session.measurements = None THEN Return([warning |-> TRUE, plots |-> <<>>])
               ELSE Return([warning |-> FALSE,
                            plots |-> <<(<<"plot_measurement_histogram", m>>),
                                        (<<"plot_bloch_sphere">>),
                                        (<<"plot_statistics", stats,
                                           plot_colour(stats.entropy_ratio)>>),
                                        (<<"plot_bit_sequence", m>>)>>]))
        /\ UNCHANGED <<measurements, counts, sample, session>>

\* fault: the comparison caches its generator's bits
PressCompare_caches ==
    \E num_measurements \in 1..MaxPress :
      \E c0 \in 0..num_measurements, zero_first \in BOOLEAN,
         classical_bits \in [1..num_measurements -> {0, 1}] :
        LET quantum_measurements ==
                expand(get_counts(c0, num_measurements - c0, zero_first))
            quantum_stats == get_statistics(quantum_measurements)
            classical_stats ==
                compare_with_classical_random(classical_bits, num_measurements)
        IN  /\ result' = Call("cmp_btn", <<num_measurements, classical_bits>>,
                   IF quantum_stats.kind = "raise" THEN quantum_stats
                   ELSE IF classical_stats.kind = "raise" THEN classical_stats
                   ELSE Return([quantum_stats |-> quantum_stats.value,
                                classical_stats |-> classical_stats.value]))
            /\ session' = [session EXCEPT !.measurements = Some(quantum_measurements)]
            /\ UNCHANGED <<measurements, counts, sample>>

\* "Run Comparison": a generator of its own, nothing is cached
PressCompare ==
    \E num_measurements \in 1..MaxPress :
      \E c0 \in 0..num_measurements, zero_first \in BOOLEAN,
         classical_bits \in [1..num_measurements -> {0, 1}] :
        LET quantum_measurements ==
                expand(get_counts(c0, num_measurements - c0, zero_first))
            quantum_stats == get_statistics(quantum_measurements)
            classical_stats ==
                compare_with_classical_random(classical_bits, num_measurements)
        IN  /\ result' = Call("cmp_btn", <<num_measurements, classical_bits>>,
                   IF quantum_stats.kind = "raise" THEN quantum_stats
                   ELSE IF classical_stats.kind = "raise" THEN classical_stats
                   ELSE Return([quantum_stats |-> quantum_stats.value,
                                classical_stats |-> classical_stats.value]))
            /\ UNCHANGED <<measurements, counts, sample, session>>

Encode == ToBinaryString \/ ToDecimal \/ ToHex \/ ToFloat \/ GetStatistics
Test == ChiSquareTest \/ RunsTest \/ EntropyTest

Next == GenerateRandomBits \/ Reset \/ Encode \/ Test

Spec == Init /\ [][Next]_vars

----------------------------------------------------------------------------
\* The labelling of entropy ratios, and the comparison command.

SpecQuality == Init /\ [][ClassifyRatio]_vars

SpecAnalyze == Init /\ [][AnalyzeCommand]_vars

\* The web page: one button press per run of the script.
NextSession == PressGenerate \/ PressAnalyze \/ PressVisualize \/ PressCompare

SpecSession == Init /\ [][NextSession]_vars

SpecCompare == Init /\ [][CompareCommand]_vars

\* The encodings and tests as functions of an arbitrary bit list: the list is
\* drawn once, held by the generator and handed to the tests.

InitPure ==
    /\ measurements \in BitLists(MaxLen)
    /\ counts = get_counts(list_count(measurements, 0), list_count(measurements, 1), TRUE)
    /\ sample = measurements
    /\ result = NoCall
    /\ session = NoSession

NextPure == Encode \/ Test

SpecPure == InitPure /\ [][NextPure]_vars

\* The chi-square test on lists as long as the claims' examples, which are
\* too long to enumerate bit by bit: every split of up to MaxCount bits into
\* zeros followed by ones, besides the short lists.

InitChi ==
    /\ sample \in BitLists(MaxLen)
                  \cup {Block(ab[1], ab[2]) :
                           ab \in {x \in (0..MaxCount) \X (0..MaxCount) :
                                      x[1] + x[2] <= MaxCount}}
    /\ measurements = <<>>
    /\ counts = <<>>
    /\ result = NoCall
    /\ session = NoSession

NextChi == ChiSquareTest

SpecChi == InitChi /\ [][NextChi]_vars

\* to_float on lists around and beyond 32 bits, which are too long to
\* enumerate bit by bit: up to 3 free bits, a run of up to MaxFill equal
\* bits, up to 2 free bits.

Fill(b, j) == [i \in 1..j |-> b]

LongLists ==
    {p \o Fill(b, j) \o q :
        p \in BitLists(3), b \in {0, 1}, j \in 0..MaxFill, q \in BitLists(2)}

InitFloat ==
    /\ measurements \in LongLists
    /\ counts = get_counts(list_count(measurements, 0), list_count(measurements, 1), TRUE)
    /\ sample = measurements
    /\ result = NoCall
    /\ session = NoSession

NextFloat == ToFloat

SpecFloat == InitFloat /\ [][NextFloat]_vars

----------------------------------------------------------------------------
\* Properties.

Returned(op) == result.op = op /\ result.out.kind = "return"
Raised(op) == result.op = op /\ result.out.kind = "raise"

\* the list a call read (the first argument of the call)
Input == result.args[1]

SingleValued(m) == list_count(m, 0) = 0 \/ list_count(m, 1) = 0

Zero == F(0, 1)
One == F(1, 1)

\* C1: runs_test fails on every list shorter than 2 and on every
\* single-valued list of length >= 2, and never returns a z_score or p_value
\* that is NaN.  Any raised exception is counted as the degenerate failure,
\* whatever its class.
C1_RunsTestRejectsDegenerate ==
    result.op = "runs_test" =>
        /\ (Len(Input) < 2 \/ SingleValued(Input)) => result.out.kind = "raise"
        /\ result.out.kind = "return" =>
              /\ ~IsNaN(result.out.value.z_score)
              /\ ~IsNaN(result.out.value.p_value)

Alternating8 == <<0, 1, 0, 1, 0, 1, 0, 1>>

\* C2 as claimed: runs_test on [0,1,0,1,0,1,0,1] returns runs_count 8,
\* expected_runs 5.0, passes_test True and interpretation 'Random'.
C2_AlternatingPasses ==
    (result.op = "runs_test" /\ Input = Alternating8) =>
        /\ result.out.kind = "return"
        /\ result.out.value.runs_count = 8
        /\ result.out.value.expected_runs = F(5, 1)
        /\ result.out.value.passes_test = TRUE
        /\ result.out.value.interpretation = "Random"

\* C2 as amended: runs_test on [0,1,0,1,0,1,0,1] returns runs_count 8 and
\* expected_runs 5.0; the excess of runs gives a positive z_score and a
\* two-sided p_value below 0.05, so passes_test is False and the
\* interpretation is 'Clustered'.
C2_AlternatingFails ==
    (result.op = "runs_test" /\ Input = Alternating8) =>
        /\ result.out.kind = "return"
        /\ result.out.value.runs_count = 8
        /\ result.out.value.expected_runs = F(5, 1)
        /\ FGt(result.out.value.z_score, Zero)
        /\ FLt(result.out.value.p_value, F(5, 100))
        /\ result.out.value.passes_test = FALSE
        /\ result.out.value.interpretation = "Clustered"

C2_Witness == Returned("runs_test") /\ Input = Alternating8

\* C3: chi_square_test fails, and returns no result, on every call where the
\* list is empty or expected_prob is 0 or expected_prob is 1.  Any raised
\* exception is counted as the failure, whatever its class.
C3_ChiSquareRejectsZeroExpected ==
    result.op = "chi_square_test" =>
        ((Input = <<>> \/ result.args[2] = Zero \/ result.args[2] = One)
            => result.out.kind = "raise")

ReadOps == {"to_binary_string", "to_decimal", "to_hex", "to_float",
            "get_statistics", "entropy_test", "chi_square_test", "runs_test"}

\* C4: every encoding and statistic rejects the empty list with one and the
\* same error kind.  The kind is taken to be the one to_binary_string raises.
C4_EmptyRejectedWithOneErrorKind ==
    (result.op \in ReadOps /\ Input = <<>>) =>
        /\ result.out.kind = "raise"
        /\ result.out.exc = to_binary_string(<<>>).exc

\* C5: every result chi_square_test or runs_test returns has a p_value in
\* the closed interval [0, 1].
C5_PValueInUnitInterval ==
    (Returned("chi_square_test") \/ Returned("runs_test")) =>
        /\ FGe(result.out.value.p_value, Zero)
        /\ FGe(One, result.out.value.p_value)

\* C6: in every result of chi_square_test and runs_test, passes_test is true
\* exactly when p_value > 0.05, and the interpretation is 'Random' exactly
\* when passes_test is true, otherwise 'Not random' (chi-square) or
\* 'Clustered' (runs).
C6_VerdictIsThresholdOfPValue ==
    /\ Returned("chi_square_test") =>
          LET v == result.out.value
          IN  /\ v.passes_test <=> FGt(v.p_value, F(5, 100))
              /\ v.interpretation = (IF v.passes_test THEN "Random" ELSE "Not random")
    /\ Returned("runs_test") =>
          LET v == result.out.value
          IN  /\ v.passes_test <=> FGt(v.p_value, F(5, 100))
              /\ v.interpretation = (IF v.passes_test THEN "Random" ELSE "Clustered")

C6_Witness ==
    /\ Returned("runs_test")
    /\ result.out.value.passes_test
    /\ result.out.value.interpretation = "Random"

\* C7: for every non-empty list and expected_prob = 0.5 the statistic is the
\* sum over the two classes of (observed - expected)^2 / expected with
\* expected = total / 2, which is (count_0 - count_1)^2 / total; it is 0 with
\* p_value 1.0 and passes for 50 zeros and 50 ones, and 100.0 and fails for
\* 100 zeros.
C7_ChiSquareStatistic ==
    (result.op = "chi_square_test" /\ result.args[2] = F(1, 2) /\ Input # <<>>) =>
        LET c0 == list_count(Input, 0)
            c1 == list_count(Input, 1)
            total == Len(Input)
            v == result.out.value
        IN  /\ result.out.kind = "return"
            /\ v.chi_square_statistic
                  = F((2 * c0 - total) ^ 2 + (2 * c1 - total) ^ 2, 2 * total)
            /\ v.chi_square_statistic = F((c0 - c1) ^ 2, total)
            /\ Input = Block(50, 50) =>
                  /\ v.chi_square_statistic = Zero
                  /\ v.p_value = One
                  /\ v.passes_test = TRUE
            /\ Input = Block(100, 0) =>
                  /\ v.chi_square_statistic = F(100, 1)
                  /\ v.passes_test = FALSE

C7_Witness ==
    /\ Returned("chi_square_test")
    /\ result.args[2] = F(1, 2)
    /\ Input = Block(100, 0)
    /\ result.out.value.chi_square_statistic = F(100, 1)

\* the number of maximal blocks of identical consecutive values
RECURSIVE MaximalBlocks(_)
MaximalBlocks(m) ==
    IF Len(m) = 0 THEN 0
    ELSE IF Len(m) = 1 THEN 1
    ELSE MaximalBlocks(Tail(m)) + (IF m[1] = m[2] THEN 0 ELSE 1)

RunsCountAndExpectedRuns ==
    LET n == Len(Input)
        n0 == list_count(Input, 0)
        n1 == list_count(Input, 1)
        v == result.out.value
    IN  /\ result.out.kind = "return"
        /\ v.runs_count = 1 + Cardinality({i \in 1..(n - 1) : Input[i] # Input[i + 1]})
        /\ v.runs_count = MaximalBlocks(Input)
        /\ 1 <= v.runs_count /\ v.runs_count <= n
        /\ v.expected_runs = F(2 * n0 * n1 + n, n)

\* C8 as claimed: for every non-empty list, runs_test's runs_count is 1 plus
\* the number of adjacent pairs that differ (the number of maximal blocks),
\* so 1 <= runs_count <= n, and expected_runs is (2*n0*n1)/n + 1.
C8_RunsCountOfNonEmpty ==
    (result.op = "runs_test" /\ Len(Input) >= 1) => RunsCountAndExpectedRuns

\* C8 as amended: the same for every list of length >= 2; on a list of length
\* 1 runs_test raises (ZeroDivisionError, from the variance) and returns no
\* runs_count.
C8_RunsCountOfLengthTwoUp ==
    /\ (result.op = "runs_test" /\ Len(Input) >= 2) => RunsCountAndExpectedRuns
    /\ (result.op = "runs_test" /\ Len(Input) = 1) => result.out.kind = "raise"

C8_Witness ==
    /\ Returned("runs_test")
    /\ Input = <<0, 1, 1, 0>>
    /\ result.out.value.runs_count = 3

Blocked8 == <<0, 0, 0, 0, 1, 1, 1, 1>>

\* C9: runs_test on [0,0,0,0,1,1,1,1] returns runs_count 2 against
\* expected_runs 5.0, a negative z_score and a p_value below 0.05, so
\* passes_test is False and the interpretation is 'Clustered'.
C9_BlockedIsClustered ==
    (result.op = "runs_test" /\ Input = Blocked8) =>
        /\ result.out.kind = "return"
        /\ result.out.value.runs_count = 2
        /\ result.out.value.expected_runs = F(5, 1)
        /\ FLt(result.out.value.z_score, Zero)
        /\ FLt(result.out.value.p_value, F(5, 100))
        /\ result.out.value.passes_test = FALSE
        /\ result.out.value.interpretation = "Clustered"

C9_Witness == Returned("runs_test") /\ Input = Blocked8

\* the big-endian base-2 value of a bit list: the first bit is the most
\* significant
BigEndianValue(m) ==
    LET RECURSIVE sum(_)
        sum(i) == IF i > Len(m) THEN 0 ELSE m[i] * 2 ^ (Len(m) - i) + sum(i + 1)
    IN  sum(1)

\* the value of a string of hexadecimal digits after its "0x"
HexNumber(s) ==
    LET digits == SubSeq(s, 3, Len(s))
        val(c) == CASE c = "0" -> 0 [] c = "1" -> 1 [] c = "2" -> 2 [] c = "3" -> 3
                    [] c = "4" -> 4 [] c = "5" -> 5 [] c = "6" -> 6 [] c = "7" -> 7
                    [] c = "8" -> 8 [] c = "9" -> 9 [] c = "a" -> 10 [] c = "b" -> 11
                    [] c = "c" -> 12 [] c = "d" -> 13 [] c = "e" -> 14 [] c = "f" -> 15
        RECURSIVE sum(_)
        sum(i) == IF i > Len(digits) THEN 0
                  ELSE val(digits[i]) * 16 ^ (Len(digits) - i) + sum(i + 1)
    IN  sum(1)

\* C10: for every non-empty list of length L, to_binary_string has length L
\* and its i-th character is the i-th bit; to_decimal is the big-endian
\* base-2 value of that string; to_hex is a lowercase hexadecimal rendering
\* ("0x" and digits) of the same integer:
\* int(to_hex, 16) = to_decimal = int(to_binary_string, 2).
C10_EncodingsAgree ==
    (result.op \in {"to_binary_string", "to_decimal", "to_hex"} /\ Input # <<>>) =>
        LET m == Input
            v == result.out.value
        IN  /\ result.out.kind = "return"
            /\ result.op = "to_binary_string" =>
                  /\ Len(v) = Len(m)
                  /\ \A i \in 1..Len(m) : v[i] = (IF m[i] = 1 THEN "1" ELSE "0")
                  /\ NatValue(int_base2(v)) = BigEndianValue(m)
                  /\ int_base2(v) = to_decimal(m).value
            /\ result.op = "to_decimal" =>
                  /\ NatValue(v) = BigEndianValue(m)
                  /\ (v = <<>> \/ Head(v) = 1)
            /\ result.op = "to_hex" =>
                  /\ Len(v) >= 3 /\ v[1] = "0" /\ v[2] = "x"
                  /\ \A i \in 3..Len(v) :
                        v[i] \in {"0", "1", "2", "3", "4", "5", "6", "7",
                                  "8", "9", "a", "b", "c", "d", "e", "f"}
                  /\ HexNumber(v) = BigEndianValue(m)
                  /\ int_base16(v) = to_decimal(m).value
                  /\ int_base16(v) = int_base2(to_binary_string(m).value)

C10_Witness ==
    /\ Returned("to_hex")
    /\ Input = <<1, 0, 1, 0, 0, 1, 0, 1>>
    /\ result.out.value = <<"0", "x", "a", "5">>

\* the 32 bits to_float reads: the list cut after 32 bits, or filled up to 32
\* bits with zeros on the right
Word32(m) == [i \in 1..32 |-> IF i <= Len(m) THEN m[i] ELSE 0]

\* a PyInt below 2^32 written with exactly 32 bits
As32Bits(d) == [i \in 1..32 |-> IF i <= 32 - Len(d) THEN 0 ELSE d[i - (32 - Len(d))]]

\* C11: for every non-empty list, to_float is k / 2^32 where k is the
\* big-endian unsigned value of exactly 32 bits, the list right-padded with
\* zeros when shorter than 32 or its first 32 bits when longer; so
\* 0 <= k < 2^32 and the result is in [0, 1), never 1.
C11_ToFloatIs32BitFraction ==
    (result.op = "to_float" /\ Input # <<>>) =>
        LET v == result.out.value
            num == v.num
        IN  /\ result.out.kind = "return"
            /\ v.den_log2 = 32
            /\ Len(num) <= 32
            /\ (num = <<>> \/ Head(num) = 1)
            /\ BigEndianValue(SubSeq(As32Bits(num), 1, 16))
                  = BigEndianValue(SubSeq(Word32(Input), 1, 16))
            /\ BigEndianValue(SubSeq(As32Bits(num), 17, 32))
                  = BigEndianValue(SubSeq(Word32(Input), 17, 32))

C11_Witness ==
    /\ Returned("to_float")
    /\ Len(Input) > 32
    /\ Input[1] = 0 /\ Input[2] = 1
    /\ Len(result.out.value.num) = 31

\* C12: to_float depends only on the first 32 bits: lists of length >= 32
\* that agree on their first 32 bits give the same result whatever follows,
\* and a list shorter than 32 bits gives the same result as the list
\* extended with trailing zeros.
C12_ToFloatReadsFirst32Bits ==
    Returned("to_float") =>
        /\ Len(Input) >= 32 =>
              \A tail \in BitLists(2) :
                  to_float(SubSeq(Input, 1, 32) \o tail) = result.out
        /\ Len(Input) < 32 =>
              \A j \in 1..(34 - Len(Input)) :
                  to_float(Input \o Fill(0, j)) = result.out

C12_Witness ==
    /\ Returned("to_float")
    /\ Len(Input) = 34
    /\ Input[1] = 1 /\ Input[33] = 0 /\ Input[34] = 1

\* the number of elements of m equal to b
RECURSIVE Occurrences(_, _)
Occurrences(m, b) ==
    IF m = <<>> THEN 0
    ELSE (IF Head(m) = b THEN 1 ELSE 0) + Occurrences(Tail(m), b)

\* C13: for every non-empty list the statistics satisfy
\* count_0 + count_1 = total_measurements = len(list),
\* probability_0 = count_0 / total and probability_1 = count_1 / total, so
\* probability_0 + probability_1 = 1.
C13_CountsAndProbabilities ==
    (result.op = "get_statistics" /\ Input # <<>>) =>
        LET v == result.out.value
        IN  /\ result.out.kind = "return"
            /\ v.total_measurements = Len(Input)
            /\ v.count_0 = Occurrences(Input, 0)
            /\ v.count_1 = Occurrences(Input, 1)
            /\ v.count_0 + v.count_1 = v.total_measurements
            /\ v.probability_0 = F(v.count_0, v.total_measurements)
            /\ v.probability_1 = F(v.count_1, v.total_measurements)
            /\ FAdd(v.probability_0, v.probability_1) = One

C13_Witness ==
    /\ Returned("get_statistics")
    /\ Input = <<0, 1, 1>>
    /\ result.out.value.count_1 = 2
    /\ result.out.value.probability_1 = F(2, 3)

EntropyOps == {"get_statistics", "entropy_test"}

\* C14: for every non-empty list, 0 <= entropy_ratio <= 1.0, and
\* entropy_ratio = 1.0 if and only if count_0 = count_1.
C14_EntropyRatioBounds ==
    (result.op \in EntropyOps /\ Input # <<>>) =>
        LET v == result.out.value
        IN  /\ result.out.kind = "return"
            /\ FGe(v.entropy_ratio, Zero)
            /\ FGe(One, v.entropy_ratio)
            /\ v.entropy_ratio = One
                  <=> Occurrences(Input, 0) = Occurrences(Input, 1)

C14_Witness ==
    /\ Returned("entropy_test")
    /\ Input = <<0, 1, 1, 0>>
    /\ result.out.value.entropy_ratio = One

\* C15: an outcome of probability 0 adds exactly 0 to the entropy: for every
\* non-empty single-valued list get_statistics and entropy_test return
\* shannon_entropy 0 and entropy_ratio 0 (quality 'Poor'), never NaN or Inf
\* and never an arithmetic error.
C15_SingleValuedEntropyIsZero ==
    (result.op \in EntropyOps /\ Input # <<>> /\ SingleValued(Input)) =>
        LET v == result.out.value
        IN  /\ result.out.kind = "return"
            /\ v.shannon_entropy = Zero
            /\ v.entropy_ratio = Zero
            /\ result.op = "entropy_test" => v.quality = "Poor"

C15_Witness ==
    /\ Returned("entropy_test")
    /\ Input = <<1, 1, 1>>
    /\ result.out.value.shannon_entropy = Zero
    /\ result.out.value.quality = "Poor"

\* C16: the quality label is a total function of the entropy ratio with
\* exactly one label per ratio: 'Excellent' iff ratio > 0.95, 'Good' iff
\* 0.85 < ratio <= 0.95, 'Poor' iff ratio <= 0.85; and entropy_test, the
\* generate report, the web page and the statistics plot's colour agree on
\* every ratio.
C16_QualityLabels ==
    result.op = "classify" =>
        LET r == result.args[1]
            v == result.out.value
            label == v.entropy_test
        IN  /\ label \in {"Excellent", "Good", "Poor"}
            /\ label = "Excellent" <=> FGt(r, F(95, 100))
            /\ label = "Good" <=> (FGt(r, F(85, 100)) /\ ~FGt(r, F(95, 100)))
            /\ label = "Poor" <=> ~FGt(r, F(85, 100))
            /\ v.generate_command = label
            /\ v.web_ui = label
            /\ v.plot_statistics = (CASE label = "Excellent" -> "#2ecc71"
                                      [] label = "Good" -> "#f39c12"
                                      [] label = "Poor" -> "#e74c3c")

C16_Witness ==
    /\ Returned("classify")
    /\ result.args[1] = F(95, 100)
    /\ result.out.value.entropy_test = "Good"
    /\ result.out.value.plot_statistics = "#f39c12"

\* C17: for every quantum list and every classical list of the same length
\* n >= 1 the comparison completes with a defined ratio, equal to the
\* quantum entropy ratio divided by the classical probability of 0.
C17_ComparisonRatioDefined ==
    result.op = "compare_command" =>
        /\ result.out.kind = "return"
        /\ IsFinite(result.out.value.ratio)
        /\ result.out.value.ratio
              = FDiv(result.out.value.quantum_stats.entropy_ratio,
                     result.out.value.classical_stats.probability_0)

\* C18: no encoding or statistic changes the list it reads or the
\* generator's measurements and counts, whether it returns or raises; so a
\* call repeated on the unchanged list gives the same outcome.
C18_ReadsChangeNothing ==
    [][/\ result'.op \in ReadOps =>
              /\ measurements' = measurements
              /\ counts' = counts
              /\ sample' = sample
       /\ (result'.op \in ReadOps /\ result.op = result'.op
              /\ result.args = result'.args) => result'.out = result.out]_vars

C18_Witness ==
    /\ Raised("to_decimal")
    /\ measurements = <<>>
    /\ counts = <<>>
    /\ sample = <<1, 0>>

GeneratorOps == {"to_binary_string", "to_decimal", "to_hex", "to_float",
                 "get_statistics"}

\* C19: the generator holds no measurements initially and after reset():
\* reset() leaves measurements and counts empty whatever they were; in that
\* state to_binary_string, to_decimal, to_hex, to_float and get_statistics
\* each raise ValueError and change nothing; they return again only after a
\* later generate_random_bits.
C19_EmptyUntilGenerate ==
    /\ [](/\ result = NoCall => (measurements = <<>> /\ counts = <<>>)
          /\ result.op = "reset" => (measurements = <<>> /\ counts = <<>>)
          /\ result.op \in GeneratorOps =>
                /\ Input = measurements
                /\ measurements = <<>> => result.out = Raise("ValueError")
                /\ measurements # <<>> => result.out.kind = "return")
    /\ [][/\ (measurements = <<>> /\ result'.op \in GeneratorOps) =>
                /\ result'.out = Raise("ValueError")
                /\ measurements' = <<>> /\ counts' = counts
          /\ (measurements = <<>> /\ measurements' # <<>>) =>
                result'.op = "generate_random_bits"
          /\ result'.op = "reset" => (measurements' = <<>> /\ counts' = <<>>)]_vars

C19_Witness ==
    /\ Raised("get_statistics")
    /\ result.out.exc = "ValueError"
    /\ measurements = <<>>
    /\ sample # <<>>

RECURSIVE SumCounts(_)
SumCounts(items) ==
    IF items = <<>> THEN 0 ELSE Head(items)[2] + SumCounts(Tail(items))

\* C20: after any interleaving of generate_random_bits, reset and reads, the
\* stored measurements are the list the latest generate_random_bits returned
\* since the last reset (a generate replaces the list, it does not append):
\* its length is the requested num_measurements, its elements are 0 or 1,
\* and the stored counts always add up to len(measurements).
C20_MeasurementsAreLatestDraw ==
    /\ measurements # <<>> => measurements = sample
    /\ \A i \in 1..Len(measurements) : measurements[i] \in {0, 1}
    /\ SumCounts(counts) = Len(measurements)
    /\ result.op = "generate_random_bits" =>
          /\ result.out = Return(measurements)
          /\ Len(measurements) = result.args[1]

C20_Witness ==
    /\ Returned("generate_random_bits")
    /\ result.args[1] = 3
    /\ measurements = <<1, 0, 0>>
    /\ counts = <<(<<"1", 1>>), (<<"0", 2>>)>>

\* C21: generate_random_bits expands the counts one outcome at a time, so
\* the occurrences of one bit value are contiguous: every generated list
\* has at most two maximal runs, and any runs_count that runs_test reports
\* for a generated list is at most 2, whatever the numbers of zeros and
\* ones.
C21_GeneratedListIsBlocked ==
    /\ MaximalBlocks(measurements) <= 2
    /\ MaximalBlocks(sample) <= 2
    /\ result.op = "generate_random_bits" =>
          MaximalBlocks(result.out.value) <= Len(counts)
    /\ Returned("runs_test") =>
          /\ Input = sample
          /\ result.out.value.runs_count = MaximalBlocks(sample)
          /\ result.out.value.runs_count <= 2

C21_Witness ==
    /\ Returned("runs_test")
    /\ Input = <<1, 1, 0, 0, 0>>
    /\ measurements = <<1, 1, 0, 0, 0>>
    /\ result.out.value.runs_count = 2

BothValues == list_count(Input, 0) >= 1 /\ list_count(Input, 1) >= 1

RunsVariance == variance(list_count(Input, 0), list_count(Input, 1), Len(Input))

\* C22: for every bit list of length n >= 2 with at least one 0 and at
\* least one 1 the variance of the runs test is strictly positive, and the
\* z_score and the p_value are finite numbers.
C22_VarianceOfMixedPositive ==
    (result.op = "runs_test" /\ Len(Input) >= 2 /\ BothValues) =>
        /\ result.out.kind = "return"
        /\ FGt(RunsVariance, Zero)
        /\ IsFinite(result.out.value.z_score)
        /\ IsFinite(result.out.value.p_value)

\* C22, amended: the same for n >= 3; for the two lists of length 2 with
\* both values the variance is 0 and the z_score and p_value are NaN.
C22_VarianceOfMixedFromThree ==
    /\ (result.op = "runs_test" /\ Len(Input) >= 3 /\ BothValues) =>
          /\ result.out.kind = "return"
          /\ FGt(RunsVariance, Zero)
          /\ IsFinite(result.out.value.z_score)
          /\ IsFinite(result.out.value.p_value)
    /\ (result.op = "runs_test" /\ Len(Input) = 2 /\ BothValues) =>
          /\ result.out.kind = "return"
          /\ RunsVariance = Zero
          /\ IsNaN(result.out.value.z_score)
          /\ IsNaN(result.out.value.p_value)
          /\ result.out.value.passes_test = FALSE

C22_Witness ==
    /\ Returned("runs_test")
    /\ Input = <<0, 1, 1>>
    /\ RunsVariance = F(2, 9)
    /\ IsFinite(result.out.value.p_value)

\* C24: the overall assessment of the analyze command is a three-way
\* function of the test results: 'EXCELLENT' exactly when the chi-square
\* and the runs test both pass and entropy_ratio > 0.95, 'GOOD' exactly when
\* both pass and entropy_ratio <= 0.95, 'NEEDS IMPROVEMENT' exactly when at
\* least one of the two tests fails, whatever the entropy ratio.
C24_OverallAssessment ==
    Returned("analyze_command") =>
        LET v == result.out.value
            both == v.chi_square.passes_test /\ v.runs.passes_test
            high == FGt(v.entropy.entropy_ratio, F(95, 100))
        IN  /\ v.assessment \in {"EXCELLENT", "GOOD", "NEEDS IMPROVEMENT"}
            /\ v.assessment = "EXCELLENT" <=> (both /\ high)
            /\ v.assessment = "GOOD" <=> (both /\ ~high)
            /\ v.assessment = "NEEDS IMPROVEMENT" <=> ~both
            /\ v.chi_square = chi_square_test(measurements, F(1, 2)).value
            /\ v.runs = runs_test(measurements).value
            /\ v.entropy = entropy_test(measurements).value

\* one test passes, the other fails, and the entropy ratio is 1
C24_Witness ==
    /\ Returned("analyze_command")
    /\ result.out.value.assessment = "NEEDS IMPROVEMENT"
    /\ result.out.value.chi_square.passes_test
    /\ ~result.out.value.runs.passes_test
    /\ result.out.value.entropy.entropy_ratio = One
    /\ Len(measurements) = 8

SessionUnset ==
    session.qrng = None /\ session.measurements = None /\ session.stats = None

SessionSet ==
    /\ session.qrng # None /\ session.measurements # None /\ session.stats # None
    /\ session.qrng[1].measurements = session.measurements[1]
    /\ session.qrng[1].measurements = expand(session.qrng[1].counts)
    /\ Return(session.stats[1]) = get_statistics(session.measurements[1])

\* C23: in the session of the web page, after any presses of Generate, Run
\* Analysis, Generate Visualizations and Run Comparison, the cached qrng,
\* measurements and stats are all unset or were all set by the same
\* Generate, stats being the statistics of the cached measurements; Run
\* Analysis and Generate Visualizations run no test or plot and only warn
\* while measurements are unset (and change nothing); Run Comparison never
\* changes the cached values.
C23_SessionCache ==
    /\ [](/\ SessionUnset \/ SessionSet
          /\ result.op = "ana_btn" =>
                /\ Input = session.measurements
                /\ SessionUnset <=>
                      result.out = Return([warning |-> TRUE, tests |-> <<>>])
          /\ result.op = "vis_btn" =>
                /\ Input = session.measurements
                /\ SessionUnset <=>
                      result.out = Return([warning |-> TRUE, plots |-> <<>>]))
    /\ [][/\ result'.op \in {"cmp_btn", "ana_btn", "vis_btn"} => session' = session
          /\ session' # session => result'.op = "gen_btn"]_vars

\* a comparison on a different draw has left the cached values in place
C23_Witness ==
    /\ Returned("cmp_btn")
    /\ SessionSet
    /\ session.measurements = Some(<<1, 0>>)
    /\ result.out.value.quantum_stats # session.stats[1]

====
